---- MODULE Spec2Model ----
(***************************************************************************)
(* A model of the dataseap analytical-engine client (pkg/adapter/starrocks)*)
(* and of the cross-table full-text search built on it (pkg/domain/query). *)
(*                                                                         *)
(* Go strings that the code takes apart (lower-casing, suffix and          *)
(* substring tests, truncation) are sequences of one-character strings;    *)
(* strings that are only compared or copied are TLA+ strings.              *)
(***************************************************************************)
EXTENDS Integers, Sequences, FiniteSets, TLC

VARIABLES
    \* ---- fullTextSearchSubServiceImpl.Search, one call in progress ----
    searchPC,               \* "idle" | "loop" | "exec" | "done"
    req,                    \* the *FullTextSearchRequest of the call
    tableIdx,               \* position of the for-loop in tablesToSearch (1-based)
    allHits,                \* var allHits []*model.SearchHit
    totalHitsAcrossTables,  \* var totalHitsAcrossTables int64
    executeLog,             \* the Execute calls made so far: sql and outcome
    searchRet               \* what Search returned

searchVars == <<searchPC, req, tableIdx, allHits, totalHitsAcrossTables,
                executeLog, searchRet>>

VARIABLES
    \* ---- starrocksClient and its caller ----
    loadURLIdx,     \* c.loadURLIdx
    lastCall,       \* the last call of a client method: request, outcome, return
    \* ---- the engine, as section 4.4 of the design describes it ----
    txnState,       \* per transaction id: NotStarted, Begun, Committed, Aborted
    labelTxn        \* per label, the transaction begun under it (0: none)

clientVars == <<loadURLIdx, lastCall, txnState, labelTxn>>

VARIABLES
    \* ---- goroutines calling StreamLoad on the one client ----
    mu,             \* c.mu: the goroutine holding the lock (0: nobody)
    loaderPC,       \* per goroutine: its position in StreamLoad
    loaderIdx,      \* per goroutine: idx := c.loadURLIdx
    taken,          \* the values read from c.loadURLIdx, in the order read
    loaderRet       \* per goroutine: the host and error of its last call

loaderVars == <<mu, loaderPC, loaderIdx, taken, loaderRet>>

VARIABLES
    \* ---- analysis serviceImpl: the package-level task map ----
    tasks,          \* var tasks: per task id the *AnalysisTask stored (or none)
    simPC,          \* per task id: position of its simulateTaskExecution
    taskCall        \* the last SubmitTask or CancelTask call and its return

taskVars == <<tasks, simPC, taskCall>>

VARIABLES
    \* ---- Application ----
    shutdownFuncs,  \* app.shutdownFuncs
    appCall         \* the last AddShutdownFunc or Shutdown call and what it did

appVars == <<shutdownFuncs, appCall>>

VARIABLES
    \* ---- ingestion serviceImpl and package errors: pure calls ----
    ingestCall,     \* the last IngestEvents or IngestEvent call and its return
    errCall         \* the last GetCode or Is call and how it ended

callVars == <<ingestCall, errCall>>

otherVars == <<loaderVars, taskVars, appVars, callVars>>

\* what the goroutines calling StreamLoad leave alone besides the client
loaderRest == <<taskVars, appVars, callVars>>

\* what the analysis service leaves alone
taskRest == <<searchVars, clientVars, loaderVars, appVars, callVars>>

\* what the Application leaves alone
appRest == <<searchVars, clientVars, loaderVars, taskVars, callVars>>

\* what a call of the ingestion service or of package errors leaves alone
callRest == <<searchVars, clientVars, loaderVars, taskVars, appVars>>


----------------------------------------------------------------------------
(* Bounds of the model *)

MaxTables == 2      \* longest TargetTables list tried
MaxRows == 2        \* most rows one per-table query returns
MaxPage == 2        \* largest Page tried (0 stands for "not set / invalid")
MaxPageSize == 2    \* largest PageSize tried (0 stands for "not set / invalid")
NumHosts == 2       \* configured FE hosts
MaxTxn == 2         \* transaction ids the engine can hand out
MaxTasks == 2       \* analysis tasks submitted
MaxShutdownFuncs == 3   \* shutdown functions registered
MaxEvents == 3      \* most events in one IngestEvents call
MaxChain == 3       \* longest chain of wrapped errors passed to GetCode and Is
IntBits == 16       \* width at which Go's int is modelled (64 on the usual targets)
NumLoaders == 2     \* goroutines calling StreamLoad at the same time

(* Program constants *)

PerTableLimit == 1000     \* limit := 1000
DefaultPageSize == 10     \* pr.PageSize = 10 // Placeholder
SnippetMax == 100         \* if len(snippet) > 100
HttpStatusOK == 200       \* http.StatusOK

----------------------------------------------------------------------------
(* Sequence and string helpers *)

Min(a, b) == IF a < b THEN a ELSE b

RECURSIVE Concat(_)
Concat(ss) == IF ss = <<>> THEN <<>> ELSE Head(ss) \o Concat(Tail(ss))

RECURSIVE SumSeq(_)
SumSeq(ns) == IF ns = <<>> THEN 0 ELSE Head(ns) + SumSeq(Tail(ns))

SeqsUpTo(S, n) == UNION {[1..k -> S] : k \in 0..n}

\* unicode.ToLower on the letters the model's strings use
LowerChar(c) ==
    CASE c = "I" -> "i" [] c = "D" -> "d" [] c = "E" -> "e" [] c = "R" -> "r"
      [] c = "L" -> "l" [] c = "O" -> "o" [] c = "G" -> "g"
      [] OTHER -> c

\* strings.ToLower
ToLower(s) == [i \in 1..Len(s) |-> LowerChar(s[i])]

\* strings.HasSuffix
HasSuffix(s, suffix) ==
    /\ Len(s) >= Len(suffix)
    /\ SubSeq(s, Len(s) - Len(suffix) + 1, Len(s)) = suffix

\* strings.Contains
Contains(s, substr) ==
    \E i \in 1..(Len(s) + 1) :
        /\ i + Len(substr) - 1 <= Len(s)
        /\ SubSeq(s, i, i + Len(substr) - 1) = substr

----------------------------------------------------------------------------
(* errors.AppError: only the code is modelled *)

NoError == "nil"
InvalidArgument == "InvalidArgument"
DatabaseError == "DatabaseError"
NetworkError == "NetworkError"
DeserializationError == "DeserializationError"

----------------------------------------------------------------------------
(* Values of a result row after json.Unmarshal into interface{}: a JSON     *)
(* string is a Go string, a JSON number a float64, JSON null is nil.  A     *)
(* client that is not JSON-backed may also hand over an int64.              *)

StrVal(s) == [kind |-> "string", str |-> s, num |-> 0]
F64Val(n) == [kind |-> "float64", str |-> <<>>, num |-> n]
I64Val(n) == [kind |-> "int64", str |-> <<>>, num |-> n]
NilVal == [kind |-> "nil", str |-> <<>>, num |-> 0]

DigitChar(d) ==
    CASE d = 0 -> "0" [] d = 1 -> "1" [] d = 2 -> "2" [] d = 3 -> "3"
      [] d = 4 -> "4" [] d = 5 -> "5" [] d = 6 -> "6" [] d = 7 -> "7"
      [] d = 8 -> "8" [] OTHER -> "9"

\* fmt.Sprintf("%d", n) for n >= 0
RECURSIVE FormatInt(_)
FormatInt(n) ==
    IF n < 10 THEN <<DigitChar(n)>>
    ELSE FormatInt(n \div 10) \o <<DigitChar(n % 10)>>

----------------------------------------------------------------------------
(* The engine's tables, as far as the search can see them: the column list  *)
(* a SELECT * returns and the rows, in the engine's row order.              *)

Keyword == <<"e", "r", "r">>

c_id == <<"i", "d">>
c_title == <<"t", "i", "t", "l", "e">>
c_user_id == <<"u", "s", "e", "r", "_", "i", "d">>
c_msg == <<"m", "s", "g">>
c_LOG_ID == <<"L", "O", "G", "_", "I", "D">>

TableNames == {"events", "logs"}
\* the TargetFields lists tried: none, one field, two fields
FieldLists == {<<>>, <<c_title>>, <<c_msg, c_title>>}

TableColumns(t) ==
    IF t = "events" THEN <<c_id, c_title, c_user_id>> ELSE <<c_msg, c_LOG_ID>>

\* a text longer than SnippetMax that contains the keyword
LongText == [i \in 1..(SnippetMax + 5) |-> IF i <= 3 THEN Keyword[i] ELSE "x"]

TableRow(t, i) ==
    IF t = "events"
    THEN CASE i % 3 = 1 -> <<StrVal(<<"e">> \o FormatInt(i)), StrVal(<<"E", "R", "R">>),
                             StrVal(<<"u">> \o FormatInt(i))>>
           [] i % 3 = 2 -> <<F64Val(i), StrVal(<<"o", "k">>), NilVal>>
           [] OTHER -> <<StrVal(<<"e">> \o FormatInt(i))>>
    ELSE CASE i % 2 = 1 -> <<StrVal(LongText), StrVal(<<"l">> \o FormatInt(i))>>
           [] OTHER -> <<StrVal(<<"o", "k">>), F64Val(i)>>

TableRows(t, n) == [i \in 1..n |-> TableRow(t, i)]

----------------------------------------------------------------------------
(* starrocksClient.Execute: what it returns for each outcome of its one     *)
(* HTTP POST.                                                               *)

NoResult == [Columns |-> <<>>, Rows |-> <<>>, StatsMessage |-> "", isNil |-> TRUE]

\* the outcome of the POST: where the transport stopped, the HTTP status,
\* whether the body is JSON of the envelope's shape, and the envelope
HttpQueryOutcome(transport, status, parsable, code, meta, result, time) ==
    [transport |-> transport, status |-> status, parsable |-> parsable,
     code |-> code, meta |-> meta, result |-> result, time |-> time]

\* a plausible slip: the body unmarshalled before the HTTP status is looked at
Execute_ParseBeforeStatus(http) ==
    IF http.transport = "newRequestErr" THEN [res |-> NoResult, err |-> NetworkError]
    ELSE IF http.transport = "doErr" THEN [res |-> NoResult, err |-> NetworkError]
    ELSE IF http.transport = "readErr" THEN [res |-> NoResult, err |-> NetworkError]
    ELSE IF ~http.parsable THEN [res |-> NoResult, err |-> DeserializationError]
    ELSE IF http.status # HttpStatusOK THEN [res |-> NoResult, err |-> DatabaseError]
    ELSE IF http.code # 0 THEN [res |-> NoResult, err |-> DatabaseError]
    ELSE [res |-> [Columns |-> [i \in 1..Len(http.meta) |-> http.meta[i].name],
                   Rows |-> http.result,
                   StatsMessage |-> IF http.time # "" THEN "Time: " \o http.time ELSE "",
                   isNil |-> FALSE],
          err |-> NoError]

\* a plausible slip: the column list made with len(meta) empty strings and
\* the names appended after them
Execute_ColumnsPreallocated(http) ==
    IF http.transport = "newRequestErr" THEN [res |-> NoResult, err |-> NetworkError]
    ELSE IF http.transport = "doErr" THEN [res |-> NoResult, err |-> NetworkError]
    ELSE IF http.transport = "readErr" THEN [res |-> NoResult, err |-> NetworkError]
    ELSE IF http.status # HttpStatusOK THEN [res |-> NoResult, err |-> DatabaseError]
    ELSE IF ~http.parsable THEN [res |-> NoResult, err |-> DeserializationError]
    ELSE IF http.code # 0 THEN [res |-> NoResult, err |-> DatabaseError]
    ELSE [res |-> [Columns |-> [i \in 1..Len(http.meta) |-> <<>>]
                                \o [i \in 1..Len(http.meta) |-> http.meta[i].name],
                   Rows |-> http.result,
                   StatsMessage |-> IF http.time # "" THEN "Time: " \o http.time ELSE "",
                   isNil |-> FALSE],
          err |-> NoError]

Execute(http) ==
    IF http.transport = "newRequestErr" THEN [res |-> NoResult, err |-> NetworkError]
    ELSE IF http.transport = "doErr" THEN [res |-> NoResult, err |-> NetworkError]
    ELSE IF http.transport = "readErr" THEN [res |-> NoResult, err |-> NetworkError]
    ELSE IF http.status # HttpStatusOK THEN [res |-> NoResult, err |-> DatabaseError]
    ELSE IF ~http.parsable THEN [res |-> NoResult, err |-> DeserializationError]
    ELSE IF http.code # 0 THEN [res |-> NoResult, err |-> DatabaseError]
    ELSE [res |-> [Columns |-> [i \in 1..Len(http.meta) |-> http.meta[i].name],
                   Rows |-> http.result,
                   StatsMessage |-> IF http.time # "" THEN "Time: " \o http.time ELSE "",
                   isNil |-> FALSE],
          err |-> NoError]

MetaOf(cols) == [i \in 1..Len(cols) |-> [name |-> cols[i], type |-> "varchar"]]

\* The answers the engine (or the network) can give to one per-table query.
QueryOutcomes(sql) ==
    {HttpQueryOutcome("doErr", 0, FALSE, 0, <<>>, <<>>, ""),
     HttpQueryOutcome("ok", HttpStatusOK, TRUE, 1, <<>>, <<>>, "")}
    \cup {HttpQueryOutcome("ok", HttpStatusOK, TRUE, 0, MetaOf(TableColumns(sql.from)),
                           TableRows(sql.from, n), "23ms") : n \in 0..MaxRows}

----------------------------------------------------------------------------
(* commontypes.PaginationRequest.  Both getters have a pointer receiver    *)
(* and write the defaults back into the request.                           *)

NoPagination == [isNil |-> TRUE, Page |-> 0, PageSize |-> 0]
Pagination(page, pageSize) == [isNil |-> FALSE, Page |-> page, PageSize |-> pageSize]

\* the request as GetOffset leaves it
AfterGetOffset(pr) ==
    [pr EXCEPT !.Page = IF pr.Page <= 0 THEN 1 ELSE pr.Page,
               !.PageSize = IF pr.PageSize <= 0 THEN DefaultPageSize ELSE pr.PageSize]

\* a plausible slip: the offset of page p taken as p * pageSize
GetOffset_PageNotZeroBased(pr) == AfterGetOffset(pr).Page * AfterGetOffset(pr).PageSize

\* Go's int: two's complement of IntBits bits, arithmetic wraps around
MaxInt == 2^(IntBits - 1) - 1
MinInt == -(2^(IntBits - 1))
WrapInt(n) == ((n - MinInt) % 2^IntBits) + MinInt

GetOffset(pr) == WrapInt((AfterGetOffset(pr).Page - 1) * AfterGetOffset(pr).PageSize)

\* the request as GetLimit leaves it
AfterGetLimit(pr) ==
    [pr EXCEPT !.PageSize = IF pr.PageSize <= 0 THEN DefaultPageSize ELSE pr.PageSize]

GetLimit(pr) == AfterGetLimit(pr).PageSize

----------------------------------------------------------------------------
(* fullTextSearchSubServiceImpl.Search                                      *)

\* the SQL text, kept in its parts:
\* "SELECT * FROM <from> WHERE <c1> OR <c2> ... [AND <filter> ...]
\*  LIMIT <limit> OFFSET <offset>",
\* each clause "<field> <op> '<keywords>'"
\* a plausible slip: the two operators the wrong way round
MatchOperator_Inverted(r) == IF ~r.RecallPriority THEN "MATCH_ANY" ELSE "MATCH_ALL"

MatchOperator(r) == IF ~r.RecallPriority THEN "MATCH_ALL" ELSE "MATCH_ANY"

\* a plausible slip: only the first field makes it into the query
MatchClauses_FirstFieldOnly(fieldsInTable, r) ==
    [i \in 1..Min(1, Len(fieldsInTable)) |->
        [field |-> fieldsInTable[i], op |-> MatchOperator(r), keywords |-> r.Keywords]]

MatchClauses(fieldsInTable, r) ==
    [i \in 1..Len(fieldsInTable) |->
        [field |-> fieldsInTable[i], op |-> MatchOperator(r), keywords |-> r.Keywords]]

\* a plausible slip: the commented-out per-table pagination switched on
BuildSQL_PaginationPushedDown(tableName, fieldsInTable, r) ==
    [from |-> tableName,
     where |-> MatchClauses(fieldsInTable, r),
     joinedBy |-> "OR",
     andFilters |-> <<>>,
     limit |-> IF r.Pagination.isNil THEN PerTableLimit ELSE GetLimit(r.Pagination),
     offset |-> IF r.Pagination.isNil THEN 0 ELSE GetOffset(r.Pagination)]

\* andFilters are the conditions ANDed onto the match clauses: the code
\* leaves the time range and the additional filters as a TODO and adds none
BuildSQL(tableName, fieldsInTable, r) ==
    [from |-> tableName,
     where |-> MatchClauses(fieldsInTable, r),
     joinedBy |-> "OR",
     andFilters |-> <<>>,
     limit |-> PerTableLimit,
     offset |-> 0]

\* a column that looks like an id
IsIDColumn(colName) ==
    ToLower(colName) = c_id \/ HasSuffix(ToLower(colName), <<"_", "i", "d">>)

\* docID after the columns 1..j of the row have been visited
RECURSIVE DocIDUpTo(_, _, _)
DocIDUpTo(columns, srRow, j) ==
    IF j = 0 THEN <<>>
    ELSE LET prev == DocIDUpTo(columns, srRow, j - 1)
         IN  IF j <= Len(srRow) /\ IsIDColumn(columns[j])
             THEN IF srRow[j].kind = "string" THEN srRow[j].str
                  ELSE IF srRow[j].kind = "int64" THEN FormatInt(srRow[j].num)
                  ELSE prev
             ELSE prev

Snippet(valStr) ==
    IF Len(valStr) > SnippetMax
    THEN SubSeq(valStr, 1, SnippetMax) \o <<".", ".", ".">>
    ELSE valStr

\* the positions of the row that the column loop visits
Visited(columns, srRow) == {j \in 1..Len(columns) : j <= Len(srRow)}

LastIn(S) == CHOOSE j \in S : \A k \in S : k <= j

BuildHit(tableName, columns, srRow, fieldsInTable, keywords) ==
    LET vis == Visited(columns, srRow)
        isHit(j) == /\ \E f \in 1..Len(fieldsInTable) : fieldsInTable[f] = columns[j]
                    /\ srRow[j].kind = "string"
                    /\ Contains(ToLower(srRow[j].str), ToLower(keywords))
        hitCols == {columns[j] : j \in {k \in vis : isHit(k)}}
    IN  [SourceTable |-> tableName,
         ID |-> DocIDUpTo(columns, srRow, Len(columns)),
         Document |-> [c \in {columns[j] : j \in vis} |->
                          srRow[LastIn({j \in vis : columns[j] = c})]],
         HitFields |-> [c \in hitCols |->
                          Snippet(srRow[LastIn({j \in vis : columns[j] = c /\ isHit(j)})].str)],
         Score |-> 1]

\* the hits of one table's result, in row order
HitsOf(tableName, srResult, fieldsInTable, keywords) ==
    [k \in 1..Len(srResult.Rows) |->
        BuildHit(tableName, srResult.Columns, srResult.Rows[k], fieldsInTable, keywords)]

\* a plausible slip: new hits put in front of the collected ones
AppendHits_Prepend(hits, newHits) == newHits \o hits

\* allHits after the rows of one successful result were transformed
AppendHits(hits, newHits) == hits \o newHits

\* a plausible slip: rows counted only when the result carries no statistics
AddTotal_OnlyWithoutStats(total, srResult) ==
    IF srResult.StatsMessage # "" THEN total ELSE total + Len(srResult.Rows)

\* totalHitsAcrossTables after one successful result (both branches of the
\* Stats test add len(srResult.Rows))
AddTotal(total, srResult) == total + Len(srResult.Rows)

\* a plausible slip: break instead of continue when a table's query fails
NextTableIdx_BreakOnError(idx, err) == IF err # NoError THEN idx + MaxTables + 1 ELSE idx + 1

\* where the for-loop goes after the Execute of table idx returned err
\* (continue on failure, next iteration on success)
NextTableIdx(idx, err) == idx + 1

\* the client-side pagination window
\* start and end as Search has them when it slices allHits
PageWindow(hits, pr) ==
    LET start0 == GetOffset(pr)
        end0 == WrapInt(start0 + GetLimit(AfterGetOffset(pr)))
        start == IF start0 < 0 THEN 0 ELSE start0
    IN  [start |-> start,
         end |-> IF end0 > Len(hits) THEN Len(hits) ELSE end0,
         empty |-> start >= Len(hits)]

\* allHits[start:end] panics when end is below start
SlicePanics(hits, pr) ==
    /\ ~pr.isNil
    /\ ~PageWindow(hits, pr).empty
    /\ PageWindow(hits, pr).end < PageWindow(hits, pr).start

PaginateHits(hits, pr) ==
    IF pr.isNil THEN hits
    ELSE IF PageWindow(hits, pr).empty THEN <<>>
    ELSE SubSeq(hits, PageWindow(hits, pr).start + 1, PageWindow(hits, pr).end)

\* req.Pagination after Search (the getters wrote their defaults into it)
PaginationAfterSearch(pr) ==
    IF pr.isNil THEN pr ELSE AfterGetLimit(AfterGetOffset(pr))

NoSearchRet == [isNil |-> TRUE, err |-> NoError, Pagination |-> NoPagination,
                returned |-> FALSE, Hits |-> <<>>, TotalHits |-> 0]

SearchError(code) == [NoSearchRet EXCEPT !.returned = TRUE, !.err = code]

\* Search did not return: it panicked (slice bounds out of range)
SearchPanicked == [NoSearchRet EXCEPT !.err = "panic"]

\* TargetTables empty: Search returns before the loop
MissingTables(r) == Len(r.TargetTables) = 0

\* a plausible slip: the explicit-fields test left out
MissingFields_Unchecked(r) == FALSE

\* TargetFields empty: the loop body returns before building a query
MissingFields(r) == Len(r.TargetFields) = 0

Paginations ==
    {NoPagination} \cup {Pagination(p, s) : p \in 0..MaxPage, s \in 0..MaxPageSize}

\* commontypes.TimeRange behind the request's pointer
NoTimeRange == [isNil |-> TRUE, StartTime |-> 0, EndTime |-> 0]
TimeRange(startTime, endTime) == [isNil |-> FALSE, StartTime |-> startTime, EndTime |-> endTime]

\* AdditionalFilters: the map as its set of <<key, value>> entries
NoFilters == {}

\* the requests of the direct callers of Search; they carry no filters
Requests ==
    [Keywords : {Keyword},
     TargetTables : SeqsUpTo(TableNames, MaxTables),
     TargetFields : FieldLists,
     RecallPriority : BOOLEAN,
     Pagination : Paginations,
     TimeRangeFilter : {NoTimeRange},
     AdditionalFilters : {NoFilters}]

NoRequest ==
    [Pagination |-> NoPagination, RecallPriority |-> FALSE, Keywords |-> <<>>,
     TargetTables |-> <<>>, TargetFields |-> <<>>,
     TimeRangeFilter |-> NoTimeRange, AdditionalFilters |-> NoFilters]

\* what entering Search does to its own state: the target tables are
\* determined
SearchEnter(r) ==
    /\ searchPC = "idle"
    /\ req' = r
    /\ IF MissingTables(r)
       THEN /\ searchPC' = "done"
            /\ searchRet' = SearchError(InvalidArgument)
       ELSE /\ searchPC' = "loop"
            /\ searchRet' = searchRet
    /\ UNCHANGED <<tableIdx, allHits, totalHitsAcrossTables, executeLog>>

\* Search is called directly
SearchCall(r) ==
    /\ SearchEnter(r)
    /\ UNCHANGED <<clientVars, otherVars>>

\* one iteration of the loop, up to the call of Execute
\* a plausible slip: the query is started with `go` and the loop goes on
PCAfterExecuteCall_FanOut == "loop"

\* s.starrocksClient.Execute is an ordinary call: the loop waits in it
PCAfterExecuteCall == "exec"

SearchQueryTable ==
    /\ searchPC = "loop"
    /\ tableIdx <= Len(req.TargetTables)
    /\ IF MissingFields(req)
       THEN /\ searchPC' = "done"
            /\ searchRet' = SearchError(InvalidArgument)
            /\ UNCHANGED <<executeLog, tableIdx>>
       ELSE IF Len(MatchClauses(req.TargetFields, req)) = 0
       THEN \* "No fields to search in table after filtering": continue
            /\ searchPC' = "loop"
            /\ tableIdx' = tableIdx + 1
            /\ UNCHANGED <<executeLog, searchRet>>
       ELSE /\ searchPC' = PCAfterExecuteCall
            /\ executeLog' = Append(executeLog,
                 [sql |-> BuildSQL(req.TargetTables[tableIdx], req.TargetFields, req),
                  pending |-> TRUE, err |-> NoError, res |-> NoResult])
            /\ UNCHANGED <<searchRet, tableIdx>>
    /\ UNCHANGED <<req, allHits, totalHitsAcrossTables>>
    /\ UNCHANGED <<clientVars, otherVars>>

\* Execute returns, and the rest of the iteration runs
SearchExecuteReturns ==
    /\ searchPC = "exec"
    /\ \E http \in QueryOutcomes(executeLog[Len(executeLog)].sql) :
         LET r == Execute(http)
             tableName == req.TargetTables[tableIdx]
         IN  /\ executeLog' = [executeLog EXCEPT ![Len(executeLog)] =
                    [@ EXCEPT !.pending = FALSE, !.err = r.err, !.res = r.res]]
             /\ IF r.err # NoError
                THEN UNCHANGED <<allHits, totalHitsAcrossTables>>
                ELSE /\ allHits' = AppendHits(allHits,
                            HitsOf(tableName, r.res, req.TargetFields, req.Keywords))
                     /\ totalHitsAcrossTables' = AddTotal(totalHitsAcrossTables, r.res)
             /\ tableIdx' = NextTableIdx(tableIdx, r.err)
    /\ searchPC' = "loop"
    /\ UNCHANGED <<req, searchRet>>
    /\ UNCHANGED <<clientVars, otherVars>>

\* the loop is over: paginate and return
SearchReturn ==
    /\ searchPC = "loop"
    /\ tableIdx > Len(req.TargetTables)
    /\ searchPC' = "done"
    /\ req' = [req EXCEPT !.Pagination = PaginationAfterSearch(req.Pagination)]
    /\ searchRet' = IF SlicePanics(allHits, req.Pagination)
                    THEN SearchPanicked
                    ELSE [returned |-> TRUE, isNil |-> FALSE,
                          Hits |-> PaginateHits(allHits, req.Pagination),
                          Pagination |-> PaginationAfterSearch(req.Pagination),
                          TotalHits |-> totalHitsAcrossTables,
                          err |-> NoError]
    /\ UNCHANGED <<tableIdx, allHits, totalHitsAcrossTables, executeLog>>
    /\ UNCHANGED <<clientVars, otherVars>>

SearchInit ==
    /\ searchPC = "idle"
    /\ req = NoRequest
    /\ tableIdx = 1
    /\ allHits = <<>>
    /\ totalHitsAcrossTables = 0
    /\ executeLog = <<>>
    /\ searchRet = NoSearchRet

SearchNext ==
    \/ \E r \in Requests : SearchCall(r)
    \/ SearchQueryTable
    \/ SearchExecuteReturns
    \/ SearchReturn

----------------------------------------------------------------------------
(* starrocksClient: the protocol client.  The client keeps no record of    *)
(* transactions; what it holds is the host list and the load round-robin   *)
(* index.  lastCall is the most recent completed call with the request it  *)
(* sent, the outcome of its HTTP exchange and what it returned.            *)

ConfigError == "ConfigError"

\* A host of cfg.Hosts is <<"fe", i, port>>: the i-th host name and the port
\* written after it, 0 when the string has no ":port".
DefaultQueryPort == 8030    \* port = 8030 // Default StarRocks FE HTTP port
ExplicitPort == 8040        \* a port written out in cfg.Hosts
cfgQueryPort == 0           \* cfg.QueryPort, left unset

\* cfg.Hosts of the client of the model: odd hosts without a port, even
\* hosts with one
cfgHosts ==
    [i \in 1..NumHosts |-> IF i % 2 = 1 THEN <<"fe", i, 0>> ELSE <<"fe", i, ExplicitPort>>]

\* cfg.QueryPort, or 8030 when it is 0
QueryPortOf(queryPort) == IF queryPort = 0 THEN DefaultQueryPort ELSE queryPort

\* NewClient's loop body: a host without a port gets the query port
ParseHost(h, queryPort) == IF h[3] = 0 THEN <<h[1], h[2], QueryPortOf(queryPort)>> ELSE h

\* NewClient: the client's host list, or ConfigError
NewClient(hosts, queryPort) ==
    IF Len(hosts) = 0
    THEN [isNil |-> TRUE, err |-> ConfigError, feHosts |-> <<>>]
    ELSE [isNil |-> FALSE, err |-> NoError,
          feHosts |-> [i \in 1..Len(hosts) |-> ParseHost(hosts[i], queryPort)]]

\* c.feHosts after NewClient
feHosts == NewClient(cfgHosts, cfgQueryPort).feHosts

\* Execute's URL: the host part of the chosen entry with the query port
QueryEndpoint(h) == <<h[1], h[2], QueryPortOf(cfgQueryPort)>>

\* the value that stands for a run-time panic (index out of range)
Panic == <<"panic", 0, 0>>

\* c.feHosts[idx]
HostAt(idx) == IF idx >= 0 /\ idx < Len(feHosts) THEN feHosts[idx + 1] ELSE Panic

TxnIds == 1..MaxTxn
Labels == {"job-a", "job-b"}

\* Status values the engine uses besides Success
NonSuccessStatuses == {"Fail", "Publish Timeout", "Label Already Exists"}

\* the outcome of the PUT of a transaction operation: where the transport
\* stopped, whether the body is JSON, and the fields of the JSON object
TxnHttp(transport, parsable, status, txnId, existingTxnId) ==
    [transport |-> transport, parsable |-> parsable, Status |-> status,
     TxnId |-> txnId, ExistingTxnId |-> existingTxnId]

\* no exchange with the engine took place
TxnHttpFailed(transport) == TxnHttp(transport, FALSE, "", 0, 0)

\* BeginTransaction's return values: the body is unmarshalled into
\* {Status, TxnId, msg} only
BeginTransactionResult(http) ==
    IF http.transport = "newRequestErr" THEN [txnID |-> 0, err |-> NetworkError]
    ELSE IF http.transport = "doErr" THEN [txnID |-> 0, err |-> NetworkError]
    ELSE IF ~http.parsable THEN [txnID |-> 0, err |-> DeserializationError]
    ELSE IF http.Status # "Success" THEN [txnID |-> 0, err |-> DatabaseError]
    ELSE [txnID |-> http.TxnId, err |-> NoError]

\* a plausible slip: commit as lenient as StreamLoad about Publish Timeout
CommitTransactionResult_AcceptsPublishTimeout(http) ==
    IF http.transport = "newRequestErr" THEN NetworkError
    ELSE IF http.transport = "doErr" THEN NetworkError
    ELSE IF ~http.parsable THEN DeserializationError
    ELSE IF http.Status # "Success" /\ http.Status # "Publish Timeout" THEN DatabaseError
    ELSE NoError

\* CommitTransaction's error
CommitTransactionResult(http) ==
    IF http.transport = "newRequestErr" THEN NetworkError
    ELSE IF http.transport = "doErr" THEN NetworkError
    ELSE IF ~http.parsable THEN DeserializationError
    ELSE IF http.Status # "Success" THEN DatabaseError
    ELSE NoError

\* a plausible slip: abort as strict as commit
AbortTransactionResult_Strict(http) ==
    IF http.transport = "newRequestErr" THEN NetworkError
    ELSE IF http.transport = "doErr" THEN NetworkError
    ELSE IF ~http.parsable THEN DeserializationError
    ELSE IF http.Status # "Success" THEN DatabaseError
    ELSE NoError

\* AbortTransaction's error: a Status other than Success is logged only
AbortTransactionResult(http) ==
    IF http.transport = "newRequestErr" THEN NetworkError
    ELSE IF http.transport = "doErr" THEN NetworkError
    ELSE IF ~http.parsable THEN DeserializationError
    ELSE NoError

----------------------------------------------------------------------------
(* StreamLoad *)

\* StreamLoadResponse: the flat JSON object of the response body
LoadResponse(status, txnId, total, loaded, filtered, unselected, errorURL) ==
    [Status |-> status, TxnID |-> txnId, Label |-> "lbl", Message |-> "",
     NumberTotalRows |-> total, NumberLoadedRows |-> loaded,
     NumberFilteredRows |-> filtered, NumberUnselectedRows |-> unselected,
     ErrorURL |-> errorURL]

ZeroLoadResponse == LoadResponse("", 0, 0, 0, 0, 0, "")

\* the response bodies the engine is seen to send
LoadResponses ==
    {LoadResponse(st, 7, 3, 3, 0, 0, "") : st \in {"Success", "Publish Timeout"}}
    \cup {LoadResponse("Success", 7, 3, 1, 1, 1, "http://fe/err")}
    \cup {LoadResponse(st, 7, 3, 0, 3, 0, "http://fe/err") :
            st \in {"Fail", "Label Already Exists"}}
    \cup {ZeroLoadResponse}
    \* a body whose counters do not add up (two of three rows accounted for)
    \cup {LoadResponse("Success", 7, 3, 2, 0, 0, "")}

\* the outcome of the PUT of a stream load
LoadHttp(transport, status, parsable, body) ==
    [transport |-> transport, status |-> status, parsable |-> parsable, body |-> body]

LoadOutcomes ==
    {LoadHttp(t, 0, FALSE, ZeroLoadResponse) : t \in {"newRequestErr", "doErr", "readErr"}}
    \cup {LoadHttp("ok", st, FALSE, ZeroLoadResponse) : st \in {HttpStatusOK, 500}}
    \cup {LoadHttp("ok", HttpStatusOK, TRUE, b) : b \in LoadResponses}
    \cup {LoadHttp("ok", 500, TRUE, LoadResponse("Fail", 0, 0, 0, 0, 0, ""))}

\* a plausible slip: the parsed response dropped when the load failed
StreamLoadResult_NilOnFailure(http) ==
    IF http.transport \in {"newRequestErr", "doErr", "readErr"}
    THEN [respNil |-> TRUE, resp |-> ZeroLoadResponse, err |-> NetworkError]
    ELSE IF ~http.parsable
    THEN [respNil |-> TRUE, resp |-> ZeroLoadResponse, err |-> DeserializationError]
    ELSE IF http.body.Status # "Success" /\ http.body.Status # "Publish Timeout"
    THEN [respNil |-> TRUE, resp |-> ZeroLoadResponse, err |-> DatabaseError]
    ELSE [respNil |-> FALSE, resp |-> http.body, err |-> NoError]

\* a plausible slip: one counter of the body not carried into the response
StreamLoadResult_UnselectedDropped(http) ==
    IF http.transport \in {"newRequestErr", "doErr", "readErr"}
    THEN [respNil |-> TRUE, resp |-> ZeroLoadResponse, err |-> NetworkError]
    ELSE IF ~http.parsable
    THEN [respNil |-> TRUE, resp |-> ZeroLoadResponse, err |-> DeserializationError]
    ELSE IF http.body.Status # "Success" /\ http.body.Status # "Publish Timeout"
    THEN [respNil |-> FALSE, resp |-> http.body, err |-> DatabaseError]
    ELSE [respNil |-> FALSE, resp |-> [http.body EXCEPT !.NumberUnselectedRows = 0],
          err |-> NoError]

\* StreamLoad's return values
StreamLoadResult(http) ==
    IF http.transport \in {"newRequestErr", "doErr", "readErr"}
    THEN [respNil |-> TRUE, resp |-> ZeroLoadResponse, err |-> NetworkError]
    ELSE IF ~http.parsable
    THEN [respNil |-> TRUE, resp |-> ZeroLoadResponse, err |-> DeserializationError]
    ELSE IF http.body.Status # "Success" /\ http.body.Status # "Publish Timeout"
    THEN [respNil |-> FALSE, resp |-> http.body, err |-> DatabaseError]
    ELSE [respNil |-> FALSE, resp |-> http.body, err |-> NoError]

\* StreamLoadOptions, the fields that decide headers the engine acts on
NilOptions == [isNil |-> TRUE, Format |-> "", TimeoutSeconds |-> 0,
               TwoPhaseCommit |-> FALSE, TransactionID |-> ""]

OptionsTried ==
    {NilOptions} \cup
    [isNil : {FALSE}, Format : {"", "json", "csv"}, TimeoutSeconds : {0, 60},
     TwoPhaseCommit : BOOLEAN, TransactionID : {"", "7"}]

\* a header the request does not carry
NotSet == "(not set)"

\* the headers StreamLoad sets from the options, after its defaults
StreamLoadHeaders(opts) ==
    LET format == IF opts.Format = "" THEN "json" ELSE opts.Format
        timeout == IF opts.TimeoutSeconds = 0 THEN 300 ELSE opts.TimeoutSeconds
        twoPC == opts.TwoPhaseCommit /\ opts.TransactionID # ""
    IN  [Expect |-> "100-continue",
         format |-> format,
         timeout |-> timeout,
         txn_id |-> IF twoPC THEN opts.TransactionID ELSE NotSet,
         two_phase_commit |-> IF twoPC THEN "true" ELSE NotSet]

----------------------------------------------------------------------------
(* The engine's side of the two-phase-commit protocol (design section 4.4): *)
(* NotStarted -begin-> Begun -commit-> Committed, Begun -abort-> Aborted.   *)
(* Each operator gives the replies the engine may send and the state it is  *)
(* in afterwards.                                                           *)

EngineReply(status, txnId, existingTxnId, ts, lt) ==
    [Status |-> status, TxnId |-> txnId, ExistingTxnId |-> existingTxnId,
     txnState |-> ts, labelTxn |-> lt]

\* the label names a transaction that is still open
OpenUnder(label) == labelTxn[label] # 0 /\ txnState[labelTxn[label]] = "Begun"

EngineBegin(label) ==
    IF OpenUnder(label)
    THEN \* duplicate label: the open transaction's id comes back as ExistingTxnId
         {EngineReply(st, id, labelTxn[label], txnState, labelTxn) :
            st \in {"Success", "Label Already Exists"}, id \in {0, labelTxn[label]}}
    ELSE {EngineReply("Success", t, 0, [txnState EXCEPT ![t] = "Begun"],
                      [labelTxn EXCEPT ![label] = t]) :
            t \in {u \in TxnIds : txnState[u] = "NotStarted"
                                  /\ \A v \in TxnIds : txnState[v] = "NotStarted" => u <= v}}
         \cup {EngineReply(st, 0, 0, txnState, labelTxn) : st \in NonSuccessStatuses}

EngineCommit(txnID) ==
    (IF txnState[txnID] = "Begun"
     THEN {EngineReply("Success", txnID, 0, [txnState EXCEPT ![txnID] = "Committed"], labelTxn)}
     ELSE {})
    \cup {EngineReply(st, txnID, 0, txnState, labelTxn) : st \in NonSuccessStatuses}

EngineAbort(txnID) ==
    (IF txnState[txnID] = "Begun"
     THEN {EngineReply("Success", txnID, 0, [txnState EXCEPT ![txnID] = "Aborted"], labelTxn)}
     ELSE {})
    \cup {EngineReply(st, txnID, 0, txnState, labelTxn) : st \in NonSuccessStatuses}

\* what reaches the client of a reply: the JSON body, or a body that does not parse
Delivered(reply) ==
    {TxnHttp("ok", TRUE, reply.Status, reply.TxnId, reply.ExistingTxnId),
     TxnHttp("ok", FALSE, "", 0, 0)}

----------------------------------------------------------------------------
(* The client's methods *)

NoCall == [op |-> "none"]

\* a plausible slip: a request whose transport failed is sent a second time
DoCalls_RetryOnError(transport) ==
    IF transport = "newRequestErr" THEN 0
    ELSE IF transport = "doErr" THEN 2
    ELSE 1

\* how often a method calls c.httpClient.Do: not at all when the request
\* could not be built, once otherwise (no method loops around the call)
DoCalls(transport) == IF transport = "newRequestErr" THEN 0 ELSE 1

\* getFeBaseURL / Execute: rand.Intn(len(c.feHosts))
RandomHost == {feHosts[idx + 1] : idx \in 0..(Len(feHosts) - 1)}

\* a plausible slip: the index wrapped one position too late
NextLoadIdx_WrapsLate(idx) == (idx + 1) % (Len(feHosts) + 1)

\* getStreamLoadURL: the index after one selection
NextLoadIdx(idx) == (idx + 1) % Len(feHosts)

\* a plausible slip: queries and loads share the round-robin counter
LoadIdxAfterExecute_SharedCounter(idx) == (idx + 1) % Len(feHosts)

\* Execute picks its host with rand.Intn and never touches c.loadURLIdx
LoadIdxAfterExecute(idx) == idx

ClientExecute(sql) ==
    \E host \in RandomHost :
    \E http \in QueryOutcomes(sql) \cup
                {HttpQueryOutcome("newRequestErr", 0, FALSE, 0, <<>>, <<>>, ""),
                 HttpQueryOutcome("readErr", HttpStatusOK, FALSE, 0, <<>>, <<>>, ""),
                 HttpQueryOutcome("ok", 500, FALSE, 0, <<>>, <<>>, ""),
                 HttpQueryOutcome("ok", 500, TRUE, 0, <<>>, <<>>, ""),
                 HttpQueryOutcome("ok", HttpStatusOK, FALSE, 0, <<>>, <<>>, "")} :
        /\ lastCall' = [op |-> "Execute", sql |-> sql, host |-> QueryEndpoint(host),
                        method |-> "POST", path |-> "/api/v1/query",
                        http |-> http, ret |-> Execute(http),
                        sent |-> DoCalls(http.transport)]
        /\ loadURLIdx' = LoadIdxAfterExecute(loadURLIdx)
        /\ UNCHANGED <<txnState, labelTxn>>
        /\ UNCHANGED <<searchVars, otherVars>>

StreamLoad(table, opts) ==
    \E http \in LoadOutcomes :
        /\ loadURLIdx' = NextLoadIdx(loadURLIdx)
        /\ lastCall' = [op |-> "StreamLoad", table |-> table, opts |-> opts,
                        host |-> HostAt(loadURLIdx),
                        method |-> "PUT", path |-> "_stream_load",
                        headers |-> StreamLoadHeaders(opts),
                        http |-> http, ret |-> StreamLoadResult(http),
                        sent |-> DoCalls(http.transport)]
        /\ UNCHANGED <<txnState, labelTxn>>
        /\ UNCHANGED <<searchVars, otherVars>>

\* the ways one PUT of a transaction operation can end: it never reaches
\* the engine, or the engine acts and its reply arrives whole or garbled
TxnOutcomes(replies) ==
    {[http |-> TxnHttpFailed(t), ts |-> txnState, lt |-> labelTxn] :
        t \in {"newRequestErr", "doErr"}}
    \cup UNION {{[http |-> h, ts |-> e.txnState, lt |-> e.labelTxn] : h \in Delivered(e)} :
                  e \in replies}

BeginTransaction(label) ==
    \E host \in RandomHost :
    \E out \in TxnOutcomes(EngineBegin(label)) :
        LET ret == BeginTransactionResult(out.http)
        IN  /\ lastCall' = [op |-> "BeginTransaction", label |-> label, host |-> host,
                            method |-> "PUT", path |-> "_stream_load_2pc",
                            action |-> "begin", http |-> out.http, ret |-> ret,
                            sent |-> DoCalls(out.http.transport)]
            /\ txnState' = out.ts
            /\ labelTxn' = out.lt
            /\ UNCHANGED loadURLIdx
            /\ UNCHANGED <<searchVars, otherVars>>

CommitTransaction(txnID) ==
    \E host \in RandomHost :
    \E out \in TxnOutcomes(EngineCommit(txnID)) :
        /\ lastCall' = [op |-> "CommitTransaction", txnID |-> txnID, host |-> host,
                        method |-> "PUT", path |-> "_stream_load_2pc",
                        action |-> "commit", http |-> out.http,
                        ret |-> [err |-> CommitTransactionResult(out.http)],
                        stateBefore |-> txnState[txnID],
                        sent |-> DoCalls(out.http.transport)]
        /\ txnState' = out.ts
        /\ labelTxn' = out.lt
        /\ UNCHANGED loadURLIdx
        /\ UNCHANGED <<searchVars, otherVars>>

AbortTransaction(txnID) ==
    \E host \in RandomHost :
    \E out \in TxnOutcomes(EngineAbort(txnID)) :
        /\ lastCall' = [op |-> "AbortTransaction", txnID |-> txnID, host |-> host,
                        method |-> "PUT", path |-> "_stream_load_2pc",
                        action |-> "abort", http |-> out.http,
                        ret |-> [err |-> AbortTransactionResult(out.http)],
                        stateBefore |-> txnState[txnID],
                        sent |-> DoCalls(out.http.transport)]
        /\ txnState' = out.ts
        /\ labelTxn' = out.lt
        /\ UNCHANGED loadURLIdx
        /\ UNCHANGED <<searchVars, otherVars>>

\* a further NewClient call by the caller; the client it may build is not
\* the one the other actions use
NewClientCall(hosts) ==
    /\ lastCall' = [op |-> "NewClient", hosts |-> hosts,
                    ret |-> NewClient(hosts, cfgQueryPort)]
    /\ UNCHANGED <<loadURLIdx, txnState, labelTxn>>
    /\ UNCHANGED <<searchVars, otherVars>>

Close ==
    /\ lastCall' = [op |-> "Close", ret |-> [err |-> NoError]]
    /\ UNCHANGED <<loadURLIdx, txnState, labelTxn>>
    /\ UNCHANGED <<searchVars, otherVars>>

----------------------------------------------------------------------------
(* StreamLoad called from several goroutines at once.  getStreamLoadURL is  *)
(* taken apart into its statements; the request that follows it touches no  *)
(* field of the client.                                                     *)

Loaders == 1..NumLoaders

\* the selections the goroutines make together in one run of the model
MaxSelections == 2 * Len(feHosts)

\* a plausible slip: c.mu.RLock() as in getFeBaseURL, which readers share
CanLock_ReadLock(holder) == TRUE

\* c.mu.Lock() returns once no goroutine holds the lock
CanLock(holder) == holder = 0

\* c.mu.Lock()
LoaderLock(g) ==
    /\ loaderPC[g] = "idle"
    /\ Len(taken) < MaxSelections
    /\ CanLock(mu)
    /\ mu' = g
    /\ loaderPC' = [loaderPC EXCEPT ![g] = "locked"]
    /\ UNCHANGED <<loaderIdx, taken, loaderRet>>
    /\ UNCHANGED <<searchVars, clientVars, loaderRest>>

\* idx := c.loadURLIdx
LoaderReadIdx(g) ==
    /\ loaderPC[g] = "locked"
    /\ loaderIdx' = [loaderIdx EXCEPT ![g] = loadURLIdx]
    /\ taken' = Append(taken, loadURLIdx)
    /\ loaderPC' = [loaderPC EXCEPT ![g] = "read"]
    /\ UNCHANGED <<mu, loaderRet>>
    /\ UNCHANGED <<searchVars, clientVars, loaderRest>>

\* c.loadURLIdx = (c.loadURLIdx + 1) % len(c.feHosts)
LoaderWriteIdx(g) ==
    /\ loaderPC[g] = "read"
    /\ loadURLIdx' = NextLoadIdx(loadURLIdx)
    /\ loaderPC' = [loaderPC EXCEPT ![g] = "written"]
    /\ UNCHANGED <<mu, loaderIdx, taken, loaderRet>>
    /\ UNCHANGED <<lastCall, txnState, labelTxn>>
    /\ UNCHANGED <<searchVars, loaderRest>>

\* c.mu.Unlock()
LoaderUnlock(g) ==
    /\ loaderPC[g] = "written"
    /\ mu' = 0
    /\ loaderPC' = [loaderPC EXCEPT ![g] = "unlocked"]
    /\ UNCHANGED <<loaderIdx, taken, loaderRet>>
    /\ UNCHANGED <<searchVars, clientVars, loaderRest>>

\* the URL is formatted from c.feHosts[idx], the request sent and answered
LoaderSend(g) ==
    /\ loaderPC[g] = "unlocked"
    /\ \E http \in LoadOutcomes :
           loaderRet' = [loaderRet EXCEPT ![g] =
                            [op |-> "StreamLoad", host |-> HostAt(loaderIdx[g]),
                             err |-> StreamLoadResult(http).err]]
    /\ loaderPC' = [loaderPC EXCEPT ![g] = "idle"]
    /\ UNCHANGED <<mu, loaderIdx, taken>>
    /\ UNCHANGED <<searchVars, clientVars, loaderRest>>

LoaderInit ==
    /\ mu = 0
    /\ loaderPC = [g \in Loaders |-> "idle"]
    /\ loaderIdx = [g \in Loaders |-> 0]
    /\ taken = <<>>
    /\ loaderRet = [g \in Loaders |-> NoCall]

\* StreamLoad calls of all goroutines, their statements interleaved
LoaderNext ==
    \/ \E g \in Loaders : LoaderLock(g)
    \/ \E g \in Loaders : LoaderReadIdx(g)
    \/ \E g \in Loaders : LoaderWriteIdx(g)
    \/ \E g \in Loaders : LoaderUnlock(g)
    \/ \E g \in Loaders : LoaderSend(g)

\* the client after NewClient (loadURLIdx starts at a random host), the
\* engine with no transaction
ClientInit ==
    /\ loadURLIdx \in 0..(Len(feHosts) - 1)
    /\ lastCall = NoCall
    /\ txnState = [t \in TxnIds |-> "NotStarted"]
    /\ labelTxn = [l \in Labels |-> 0]

\* the query the caller of Execute sends in the model
SampleSQL(t) ==
    BuildSQL(t, <<c_title>>, [RecallPriority |-> TRUE, Keywords |-> Keyword])

\* calls of the two-phase-commit operations by one caller
TxnNext ==
    \/ \E l \in Labels : BeginTransaction(l)
    \/ \E t \in TxnIds : CommitTransaction(t)
    \/ \E t \in TxnIds : AbortTransaction(t)

\* calls of the query, load and close operations by one caller
LoadNext ==
    \/ \E t \in TableNames : ClientExecute(SampleSQL(t))
    \/ \E o \in OptionsTried : StreamLoad("events", o)
    \/ Close

----------------------------------------------------------------------------
(* serviceImpl: the query service in front of the client and the search     *)
(* sub-service.  One caller makes one call at a time.                       *)

DomainError == "DomainError"
InternalError == "InternalError"

\* the SQL text "" in the parts the model keeps SQL in
EmptySQL ==
    [from |-> "", where |-> <<>>, joinedBy |-> "", andFilters |-> <<>>,
     limit |-> 0, offset |-> 0]

\* SQLQueryRequest.Validate
ValidateSQL(q) == IF q.SQL = EmptySQL THEN DomainError ELSE NoError

\* a plausible slip: the keywords test left out of Validate
ValidateSearch_Unchecked(r) == NoError

\* FullTextSearchRequest.Validate
ValidateSearch(r) == IF Len(r.Keywords) = 0 THEN DomainError ELSE NoError

\* one row of SQLQueryResult.Rows: column name to value, for the columns the
\* row has a value for
RowMap(columns, srRow) ==
    [c \in {columns[j] : j \in Visited(columns, srRow)} |->
        srRow[LastIn({j \in Visited(columns, srRow) : columns[j] = c})]]

\* ExecuteSQL's return values after Execute returned r
ExecuteSQLResult(r) ==
    IF r.err # NoError
    THEN [isNil |-> TRUE, err |-> DatabaseError, Columns |-> <<>>, Rows |-> <<>>,
          StatsMessage |-> ""]
    ELSE [isNil |-> FALSE, err |-> NoError, Columns |-> r.res.Columns,
          Rows |-> [k \in 1..Len(r.res.Rows) |-> RowMap(r.res.Columns, r.res.Rows[k])],
          StatsMessage |-> r.res.StatsMessage]

SQLRequests == {[SQL |-> EmptySQL], [SQL |-> SampleSQL("events")]}

ExecuteSQL(q) ==
    /\ searchPC = "idle"
    /\ IF ValidateSQL(q) # NoError
       THEN lastCall' = [op |-> "ExecuteSQL", request |-> q, executeCalled |-> FALSE,
                         sent |-> 0,
                         ret |-> [isNil |-> TRUE, err |-> InvalidArgument]]
       ELSE \E host \in RandomHost :
            \E http \in QueryOutcomes(q.SQL) :
                lastCall' = [op |-> "ExecuteSQL", request |-> q, executeCalled |-> TRUE,
                             sent |-> DoCalls(http.transport),
                             host |-> QueryEndpoint(host), http |-> http,
                             ret |-> ExecuteSQLResult(Execute(http))]
    /\ UNCHANGED <<loadURLIdx, txnState, labelTxn>>
    /\ UNCHANGED <<searchVars, otherVars>>

\* the requests the caller of SearchFullText makes
ServiceRequests ==
    [Keywords : {<<>>, Keyword},
     TargetTables : SeqsUpTo(TableNames, MaxTables),
     TargetFields : FieldLists,
     RecallPriority : {TRUE},
     Pagination : {NoPagination, Pagination(1, 1)},
     TimeRangeFilter : {NoTimeRange, TimeRange(1, 2)},
     AdditionalFilters : {NoFilters, {<<"status", "active">>}}]

\* s.fullTextSearcher is set by NewService
fullTextSearcherIsNil == FALSE

\* SearchFullText up to the point where it returns early or has called
\* Search; in the second case it returns what Search returns
SearchFullText(r) ==
    /\ searchPC = "idle"
    /\ IF ValidateSearch(r) # NoError
       THEN /\ lastCall' = [op |-> "SearchFullText", request |-> r,
                            searchCalled |-> FALSE, earlyErr |-> InvalidArgument]
            /\ UNCHANGED searchVars
       ELSE IF fullTextSearcherIsNil
       THEN /\ lastCall' = [op |-> "SearchFullText", request |-> r,
                            searchCalled |-> FALSE, earlyErr |-> InternalError]
            /\ UNCHANGED searchVars
       ELSE /\ lastCall' = [op |-> "SearchFullText", request |-> r,
                            searchCalled |-> TRUE, earlyErr |-> NoError]
            /\ SearchEnter(r)
    /\ UNCHANGED <<loadURLIdx, txnState, labelTxn>>
    /\ UNCHANGED otherVars

\* calls of the query service by one caller, and the steps of the Search
\* that SearchFullText called
ServiceNext ==
    \/ \E q \in SQLRequests : ExecuteSQL(q)
    \/ \E r \in ServiceRequests : SearchFullText(r)
    \/ SearchQueryTable
    \/ SearchExecuteReturns
    \/ SearchReturn

\* page numbers and sizes from the whole range of int
PagesTried == {-1, 0, 1, 2, 2^(IntBits - 3) + 1}
PageSizesTried == {-1, 0, 1, 4, MaxInt}

\* searches of one table that differ in their pagination only
PageRequests ==
    [Keywords : {Keyword},
     TargetTables : {<<"events">>},
     TargetFields : {<<c_title>>},
     RecallPriority : {TRUE},
     Pagination : {NoPagination}
                    \cup {Pagination(p, ps) : p \in PagesTried, ps \in PageSizesTried},
     TimeRangeFilter : {NoTimeRange},
     AdditionalFilters : {NoFilters}]

\* SearchFullText calls with these requests, the searches run to their end
PageNext ==
    \/ \E r \in PageRequests : SearchFullText(r)
    \/ SearchQueryTable
    \/ SearchExecuteReturns
    \/ SearchReturn

\* calls of every method of the client by one caller, in any order
ClientNext ==
    \/ ClientExecute(SampleSQL("events"))
    \/ StreamLoad("events", NilOptions)
    \/ \E l \in Labels : BeginTransaction(l)
    \/ \E t \in TxnIds : CommitTransaction(t)
    \/ \E t \in TxnIds : AbortTransaction(t)
    \/ \E hosts \in {<<>>, cfgHosts} : NewClientCall(hosts)
    \/ Close

----------------------------------------------------------------------------
(* The analysis service: SubmitTask, its background simulateTaskExecution   *)
(* goroutine, and CancelTask, all working on the package-level map `tasks`. *)
(* The map holds pointers, so every writer changes the one task object.     *)

NotFoundError == "NotFoundError"

TaskStatusPending == "PENDING"
TaskStatusRunning == "RUNNING"
TaskStatusSuccess == "SUCCESS"
TaskStatusFailed == "FAILED"
TaskStatusCancelled == "CANCELLED"

TaskIDs == 1..MaxTasks

\* tasks[id] for an id that was never stored
NoTask == [present |-> FALSE, Status |-> "", Message |-> "",
           StartedAtSet |-> FALSE, CompletedAtSet |-> FALSE]

\* the TaskType values submitted: empty (invalid) and a valid one
TaskTypes == {"", "aggregate"}

\* AnalysisTask.ValidateForCreation
ValidateForCreation(taskType) == IF taskType = "" THEN DomainError ELSE NoError

\* uuid.NewString(): an id no stored task has
FreshIDs == {id \in TaskIDs : ~tasks[id].present}

SubmitTask(taskType) ==
    /\ IF ValidateForCreation(taskType) # NoError
       THEN /\ taskCall' = [op |-> "SubmitTask", taskID |-> 0, err |-> InvalidArgument]
            /\ UNCHANGED <<tasks, simPC>>
       ELSE \E id \in FreshIDs :
            /\ tasks' = [tasks EXCEPT ![id] =
                            [present |-> TRUE, Status |-> TaskStatusPending,
                             Message |-> "", StartedAtSet |-> FALSE,
                             CompletedAtSet |-> FALSE]]
            /\ simPC' = [simPC EXCEPT ![id] = "sleep2s"]
            /\ taskCall' = [op |-> "SubmitTask", taskID |-> id, err |-> NoError]
    /\ UNCHANGED taskRest

\* simulateTaskExecution after its first sleep: the task is set to RUNNING
\* whatever its status is
SimulateRunning(id) ==
    /\ simPC[id] = "sleep2s"
    /\ IF ~tasks[id].present
       THEN /\ simPC' = [simPC EXCEPT ![id] = "returned"]
            /\ UNCHANGED tasks
       ELSE /\ tasks' = [tasks EXCEPT ![id].Status = TaskStatusRunning,
                                      ![id].StartedAtSet = TRUE]
            /\ simPC' = [simPC EXCEPT ![id] = "sleep5s"]
    /\ UNCHANGED taskCall
    /\ UNCHANGED taskRest

\* simulateTaskExecution after its second sleep: SUCCESS or FAILED by the
\* parity of the clock, again whatever the status is
SimulateCompleted(id) ==
    /\ simPC[id] = "sleep5s"
    /\ IF ~tasks[id].present
       THEN UNCHANGED tasks
       ELSE \E even \in BOOLEAN :
            tasks' = [tasks EXCEPT
                ![id].Status = IF even THEN TaskStatusSuccess ELSE TaskStatusFailed,
                ![id].Message = IF even THEN "completed" ELSE "failed",
                ![id].CompletedAtSet = TRUE]
    /\ simPC' = [simPC EXCEPT ![id] = "returned"]
    /\ UNCHANGED taskCall
    /\ UNCHANGED taskRest

\* CancelTask's return value and the task afterwards
CancelTaskResult(task) ==
    IF ~task.present THEN [err |-> NotFoundError, task |-> task]
    ELSE IF task.Status \in {TaskStatusPending, TaskStatusRunning}
    THEN [err |-> NoError,
          task |-> [task EXCEPT !.Status = TaskStatusCancelled,
                                !.Message = "cancellation requested",
                                !.CompletedAtSet = TRUE]]
    ELSE IF task.Status \in {TaskStatusSuccess, TaskStatusFailed, TaskStatusCancelled}
    THEN [err |-> InvalidArgument, task |-> task]
    ELSE [err |-> InternalError, task |-> task]

CancelTask(id) ==
    /\ tasks' = [tasks EXCEPT ![id] = CancelTaskResult(tasks[id]).task]
    /\ taskCall' = [op |-> "CancelTask", taskID |-> id,
                    err |-> CancelTaskResult(tasks[id]).err]
    /\ UNCHANGED simPC
    /\ UNCHANGED taskRest

TaskInit ==
    /\ tasks = [id \in TaskIDs |-> NoTask]
    /\ simPC = [id \in TaskIDs |-> "none"]
    /\ taskCall = NoCall

\* calls of SubmitTask and CancelTask interleaved with the steps of the
\* simulateTaskExecution goroutines
TaskNext ==
    \/ \E taskType \in TaskTypes : SubmitTask(taskType)
    \/ \E id \in TaskIDs : SimulateRunning(id)
    \/ \E id \in TaskIDs : SimulateCompleted(id)
    \/ \E id \in TaskIDs : CancelTask(id)

----------------------------------------------------------------------------
(* Application: AddShutdownFunc and Shutdown.  A shutdown function is known *)
(* by its name; whether a call of it returns an error is the function's     *)
(* business and is chosen per call.                                         *)

ShutdownFuncNames == {"closeClient", "stopGRPC", "stopHTTP"}

AddShutdownFunc(f) ==
    /\ Len(shutdownFuncs) < MaxShutdownFuncs
    /\ shutdownFuncs' = Append(shutdownFuncs, f)
    /\ appCall' = [op |-> "AddShutdownFunc", f |-> f]
    /\ UNCHANGED appRest

\* a plausible slip: the functions run in the order of their registration
RunShutdownFuncs_RegistrationOrder(funcs, fails, i) ==
    [k \in 1..(i + 1) |-> [f |-> funcs[k], failed |-> fails[k]]]

\* for i := len(app.shutdownFuncs) - 1; i >= 0; i-- : the calls made from
\* index i down to 0, in the order made; the k-th call is f at index
\* i - (k - 1), and an error it returns is logged and the loop goes on
RunShutdownFuncs(funcs, fails, i) ==
    [k \in 1..(i + 1) |-> [f |-> funcs[i + 2 - k], failed |-> fails[i + 2 - k]]]

Shutdown ==
    /\ \E fails \in [1..Len(shutdownFuncs) -> BOOLEAN] :
       \E syncFails \in BOOLEAN :
          appCall' = [op |-> "Shutdown", funcs |-> shutdownFuncs, fails |-> fails,
                      ran |-> RunShutdownFuncs(shutdownFuncs, fails,
                                               Len(shutdownFuncs) - 1),
                      syncFails |-> syncFails, err |-> NoError]
    /\ UNCHANGED shutdownFuncs
    /\ UNCHANGED appRest

\* the Application after NewApplication: no shutdown function registered
AppInit ==
    /\ shutdownFuncs = <<>>
    /\ appCall = NoCall

AppNext ==
    \/ \E f \in ShutdownFuncNames : AddShutdownFunc(f)
    \/ Shutdown

----------------------------------------------------------------------------
(* The ingestion service: IngestEvents and IngestEvent.  Every caller in    *)
(* the repository builds the slice from non-nil events.                     *)

RawEvent(dataSourceID, dataType, timestampIsZero, hasData, payloadLen) ==
    [DataSourceID |-> dataSourceID, DataType |-> dataType,
     TimestampIsZero |-> timestampIsZero, HasData |-> hasData,
     PayloadLen |-> payloadLen]

\* the events tried: two valid ones and one failing each test of Validate
RawEvents ==
    {RawEvent("src", "log", FALSE, TRUE, 0),
     RawEvent("src", "log", FALSE, FALSE, 1),
     RawEvent("", "log", FALSE, TRUE, 0),
     RawEvent("src", "", FALSE, TRUE, 0),
     RawEvent("src", "log", TRUE, TRUE, 0),
     RawEvent("src", "log", FALSE, FALSE, 0)}

\* RawEvent.Validate
ValidateEvent(re) ==
    IF re.DataSourceID = "" THEN DomainError
    ELSE IF re.DataType = "" THEN DomainError
    ELSE IF re.TimestampIsZero THEN DomainError
    ELSE IF ~re.HasData /\ re.PayloadLen = 0 THEN DomainError
    ELSE NoError

IngestCounts(ingested, persistFailed, validationFailed, err) ==
    [ingestedCount |-> ingested, persistFailedCount |-> persistFailed,
     validationFailedCount |-> validationFailed, err |-> err]

\* the loop of IngestEvents from event k on: an invalid event is counted
\* and skipped, any other is counted as ingested (persisting is a TODO)
RECURSIVE IngestLoop(_, _, _)
IngestLoop(events, k, counts) ==
    IF k > Len(events) THEN counts
    ELSE IF ValidateEvent(events[k]) # NoError
    THEN IngestLoop(events, k + 1,
            [counts EXCEPT !.validationFailedCount = @ + 1])
    ELSE IngestLoop(events, k + 1, [counts EXCEPT !.ingestedCount = @ + 1])

\* a plausible slip: a batch of which some events were ingested is a success
IngestEventsResult_NilOnPartial(events) ==
    LET c == IngestLoop(events, 1, IngestCounts(0, 0, 0, NoError))
    IN  IF c.ingestedCount > 0 \/ Len(events) = 0 THEN c
        ELSE [c EXCEPT !.err = InvalidArgument]

\* IngestEvents' return values
IngestEventsResult(events) ==
    IF Len(events) = 0 THEN IngestCounts(0, 0, 0, NoError)
    ELSE LET c == IngestLoop(events, 1, IngestCounts(0, 0, 0, NoError))
         IN  IF c.persistFailedCount > 0 THEN [c EXCEPT !.err = DatabaseError]
             ELSE IF c.validationFailedCount > 0
             THEN [c EXCEPT !.err = InvalidArgument]
             ELSE c

\* IngestEvent's return value
IngestEventResult(event) ==
    LET r == IngestEventsResult(<<event>>)
    IN  IF r.err # NoError THEN r.err
        ELSE IF r.validationFailedCount > 0 THEN InvalidArgument
        ELSE NoError

IngestEvents(events) ==
    /\ ingestCall' = [op |-> "IngestEvents", events |-> events,
                      ret |-> IngestEventsResult(events)]
    /\ UNCHANGED errCall
    /\ UNCHANGED callRest

IngestEvent(event) ==
    /\ ingestCall' = [op |-> "IngestEvent", events |-> <<event>>,
                      ret |-> IngestCounts(0, 0, 0, IngestEventResult(event))]
    /\ UNCHANGED errCall
    /\ UNCHANGED callRest

IngestInit == ingestCall = NoCall

IngestNext ==
    \/ \E events \in SeqsUpTo(RawEvents, MaxEvents) : IngestEvents(events)
    \/ \E event \in RawEvents : IngestEvent(event)

----------------------------------------------------------------------------
(* Package errors: As, GetCode and Is.  An error value is the chain of its  *)
(* links from the outermost inwards, the empty chain being the nil error.   *)
(* A link is an *AppError with its Code, an error of another type that      *)
(* wraps the next link (it has Unwrap), or a plain error of another type.   *)

UnknownError == "UnknownError"

AppErrorLink(code) == [kind |-> "AppError", Code |-> code]
WrapLink == [kind |-> "wrapping", Code |-> ""]
PlainLink == [kind |-> "plain", Code |-> ""]

Links == {AppErrorLink(InvalidArgument), AppErrorLink(DatabaseError),
          WrapLink, PlainLink}

\* the chains Go values can form: a plain error wraps nothing, a wrapping
\* error wraps something
ErrorChains ==
    {ch \in SeqsUpTo(Links, MaxChain) :
        \A k \in 1..Len(ch) :
            /\ ch[k].kind = "plain" => k = Len(ch)
            /\ ch[k].kind = "wrapping" => k < Len(ch)}

\* As: false for nil, the error itself when it is an *AppError; otherwise
\* e is a nil *AppError, and `cause := e; for cause.Err != nil` reads a
\* field through that nil pointer
As(err) ==
    IF Len(err) = 0 THEN [ok |-> FALSE, Code |-> "", panics |-> FALSE]
    ELSE IF err[1].kind = "AppError"
    THEN [ok |-> TRUE, Code |-> err[1].Code, panics |-> FALSE]
    ELSE [ok |-> FALSE, Code |-> "", panics |-> TRUE]

GetCode(err) ==
    LET a == As(err)
    IN  IF a.panics THEN [panics |-> TRUE, code |-> ""]
        ELSE IF a.ok THEN [panics |-> FALSE, code |-> a.Code]
        ELSE [panics |-> FALSE, code |-> UnknownError]

Is(err, targetCode) ==
    LET a == As(err)
    IN  IF a.panics THEN [panics |-> TRUE, is |-> FALSE]
        ELSE IF a.ok THEN [panics |-> FALSE, is |-> a.Code = targetCode]
        ELSE [panics |-> FALSE, is |-> FALSE]

GetCodeCall(err) ==
    /\ errCall' = [op |-> "GetCode", err |-> err, ret |-> GetCode(err)]
    /\ UNCHANGED ingestCall
    /\ UNCHANGED callRest

IsCall(err, targetCode) ==
    /\ errCall' = [op |-> "Is", err |-> err, targetCode |-> targetCode,
                   ret |-> Is(err, targetCode)]
    /\ UNCHANGED ingestCall
    /\ UNCHANGED callRest

ErrorsInit == errCall = NoCall

ErrorsNext ==
    \/ \E err \in ErrorChains : GetCodeCall(err)
    \/ \E err \in ErrorChains :
          \E c \in {InvalidArgument, DatabaseError, UnknownError} : IsCall(err, c)

----------------------------------------------------------------------------
(* Specifications *)

vars == <<searchVars, clientVars, otherVars>>

OtherInit == LoaderInit /\ TaskInit /\ AppInit /\ IngestInit /\ ErrorsInit

Init == SearchInit /\ ClientInit /\ OtherInit

\* one Search call against an engine that answers each query in any way
Next == SearchNext

\* Search calls only Execute, which neither reads nor writes the load index
InitSearch == Init /\ loadURLIdx = 0

Spec == InitSearch /\ [][Next]_vars

\* any sequence of BeginTransaction, CommitTransaction and AbortTransaction
\* calls against the engine
TxnSpec == Init /\ [][TxnNext]_vars

\* any sequence of Execute, StreamLoad and Close calls
LoadSpec == Init /\ [][LoadNext]_vars

\* ExecuteSQL and SearchFullText calls, the searches run to their end
ServiceSpec == InitSearch /\ [][ServiceNext]_vars

\* any sequence of calls of the client's methods
ClientSpec == Init /\ [][ClientNext]_vars

\* goroutines calling StreamLoad on one client, in any interleaving
LoaderSpec == Init /\ [][LoaderNext]_vars

\* the analysis service and its background goroutines
TaskSpec == Init /\ [][TaskNext]_vars

\* registrations of shutdown functions and Shutdown calls, in any order
AppSpec == Init /\ [][AppNext]_vars

\* IngestEvents and IngestEvent calls with every batch up to MaxEvents
IngestSpec == Init /\ [][IngestNext]_vars

\* GetCode and Is calls with every error chain up to MaxChain
ErrorsSpec == Init /\ [][ErrorsNext]_vars

\* searches with page numbers and page sizes from the whole range of int
PageSpec == InitSearch /\ [][PageNext]_vars

----------------------------------------------------------------------------
(* Properties of Search *)

SearchDone == searchPC = "done"

\* the i-th Execute call of the Search returned a result
Succeeded(i) == ~executeLog[i].pending /\ executeLog[i].err = NoError
Failed(i) == ~executeLog[i].pending /\ executeLog[i].err # NoError

\* the rows the i-th Execute call handed to Search
RowsReturned(i) == IF Succeeded(i) THEN Len(executeLog[i].res.Rows) ELSE 0

\* the hits the code is expected to have collected: per table-list
\* position, the rows of that position's successful result, in row order
ExpectedHits ==
    Concat([i \in 1..Len(executeLog) |->
        IF Succeeded(i)
        THEN HitsOf(req.TargetTables[i], executeLog[i].res, req.TargetFields, req.Keywords)
        ELSE <<>>])

\* C1: a Search with target tables and fields returns no error whatever
\* subset of its per-table queries failed; every table of the list was
\* queried, in list order, also after a failure; and per table name the
\* collected hits are exactly the rows of the successful queries of that
\* table, so a failed query contributes none.
C1_PartialFailureTolerated ==
    (SearchDone /\ Len(req.TargetTables) > 0 /\ Len(req.TargetFields) > 0) =>
        /\ searchRet.returned /\ ~searchRet.isNil /\ searchRet.err = NoError
        /\ Len(executeLog) = Len(req.TargetTables)
        /\ \A i \in 1..Len(executeLog) :
              /\ ~executeLog[i].pending
              /\ executeLog[i].sql.from = req.TargetTables[i]
        /\ \A t \in TableNames :
              Cardinality({k \in 1..Len(allHits) : allHits[k].SourceTable = t})
                = SumSeq([i \in 1..Len(executeLog) |->
                            IF req.TargetTables[i] = t THEN RowsReturned(i) ELSE 0])
        /\ \A k \in 1..Len(searchRet.Hits) :
              \E i \in 1..Len(executeLog) :
                  /\ Succeeded(i) /\ RowsReturned(i) > 0
                  /\ req.TargetTables[i] = searchRet.Hits[k].SourceTable

\* C1 witness: the first table's query failed, the second returned rows,
\* and the search returned those rows
C1_Witness ==
    /\ SearchDone /\ searchRet.err = NoError
    /\ Len(executeLog) = 2
    /\ Failed(1) /\ Succeeded(2) /\ RowsReturned(2) = 2
    /\ req.TargetTables[1] # req.TargetTables[2]
    /\ req.Pagination.isNil
    /\ Len(searchRet.Hits) = 2
    /\ \A k \in 1..2 : searchRet.Hits[k].SourceTable = req.TargetTables[2]

C3_TotalIsCollectedCount ==
    (SearchDone /\ searchRet.err = NoError) =>
        /\ searchRet.TotalHits = Len(allHits)
        /\ searchRet.TotalHits = SumSeq([i \in 1..Len(executeLog) |-> RowsReturned(i)])
        /\ searchRet.TotalHits >= Len(searchRet.Hits)

\* C3 witness: the first table failed, the second returned two rows, and
\* page 1 of size 1 reports a total of 2 with one hit
C3_Witness ==
    /\ SearchDone /\ searchRet.err = NoError /\ ~req.Pagination.isNil
    /\ Len(executeLog) = 2 /\ Failed(1) /\ Succeeded(2)
    /\ req.Pagination.Page = 1 /\ req.Pagination.PageSize = 1
    /\ searchRet.TotalHits = 2
    /\ Len(searchRet.Hits) = 1

\* C4: the collected hits are, table-list position by position, the rows of
\* that position's result in the result's row order, and the returned hits
\* are a run of consecutive collected hits in the same order; the sequence
\* is a function of the request and the per-table results alone.
C4_TableThenRowOrder ==
    /\ (searchPC \in {"loop", "done"}) => allHits = ExpectedHits
    /\ (SearchDone /\ searchRet.err = NoError) =>
          \E start \in 0..Len(ExpectedHits) :
              /\ start + Len(searchRet.Hits) <= Len(ExpectedHits)
              /\ \A k \in 1..Len(searchRet.Hits) :
                    searchRet.Hits[k] = ExpectedHits[start + k]

\* C4 witness: two tables with two rows each, all four returned, the first
\* table's rows first
C4_Witness ==
    /\ SearchDone /\ searchRet.err = NoError
    /\ Len(executeLog) = 2 /\ Succeeded(1) /\ Succeeded(2)
    /\ req.TargetTables = <<"logs", "events">>
    /\ Len(searchRet.Hits) = 4
    /\ searchRet.Hits[1].SourceTable = "logs" /\ searchRet.Hits[2].SourceTable = "logs"
    /\ searchRet.Hits[3].SourceTable = "events" /\ searchRet.Hits[4].SourceTable = "events"
    /\ searchRet.Hits[1] # searchRet.Hits[2] /\ searchRet.Hits[3] # searchRet.Hits[4]

C15_OneOperatorPerQuery ==
    \A i \in 1..Len(executeLog) :
        LET where == executeLog[i].sql.where
        IN  /\ Len(where) = Len(req.TargetFields)
            /\ \A k \in 1..Len(where) :
                  /\ where[k].field = req.TargetFields[k]
                  /\ where[k].keywords = req.Keywords
                  /\ req.RecallPriority => where[k].op = "MATCH_ANY"
                  /\ ~req.RecallPriority => where[k].op = "MATCH_ALL"
            /\ \A k, m \in 1..Len(where) : where[k].op = where[m].op

\* C15 witness: a request without recall priority and with two target
\* fields sent a query with two MATCH_ALL predicates
C15_Witness ==
    /\ Len(executeLog) >= 1
    /\ ~req.RecallPriority
    /\ Len(req.TargetFields) = 2
    /\ Len(executeLog[1].sql.where) = 2
    /\ executeLog[1].sql.where[1].op = "MATCH_ALL"
    /\ executeLog[1].sql.where[2].op = "MATCH_ALL"
    /\ executeLog[1].sql.where[1].field # executeLog[1].sql.where[2].field

\* C19 as stated: a finished Search with T target tables and F target
\* fields has called Execute T*F times.
C19_OneQueryPerTableAndField ==
    (SearchDone /\ searchRet.err = NoError) =>
        Len(executeLog) = Len(req.TargetTables) * Len(req.TargetFields)

\* C19 as amended: a Search with T target tables and F >= 1 target fields
\* calls Execute once per target table, T times when it has finished and
\* never more before, the i-th call for the i-th table of the list, and
\* each query holds the predicates of all F fields.
C19_OneQueryPerTable ==
    /\ Len(executeLog) <= Len(req.TargetTables)
    /\ \A i \in 1..Len(executeLog) :
          /\ executeLog[i].sql.from = req.TargetTables[i]
          /\ Len(executeLog[i].sql.where) = Len(req.TargetFields)
    /\ (SearchDone /\ searchRet.err = NoError) =>
          Len(executeLog) = Len(req.TargetTables)

\* C19 witness: two tables and two fields, two queries of two predicates
C19_Witness ==
    /\ SearchDone /\ searchRet.err = NoError
    /\ Len(req.TargetTables) = 2 /\ Len(req.TargetFields) = 2
    /\ Len(executeLog) = 2
    /\ Len(executeLog[1].sql.where) = 2 /\ Len(executeLog[2].sql.where) = 2

\* C20: every query Search has sent asks for LIMIT 1000 OFFSET 0, whatever
\* page and page size the request carries; the page and page size show only
\* in the slice of the collected hits that is returned.
C20_FixedCapNoPushdown ==
    /\ \A i \in 1..Len(executeLog) :
          executeLog[i].sql.limit = 1000 /\ executeLog[i].sql.offset = 0
    /\ (SearchDone /\ searchRet.err = NoError) =>
          /\ Len(allHits) = SumSeq([i \in 1..Len(executeLog) |-> RowsReturned(i)])
          /\ Len(searchRet.Hits) <= Len(allHits)

\* C20 witness: page 2 of size 2 was asked for, the one query sent asked for
\* LIMIT 1000 OFFSET 0, returned two rows, and the page is empty
C20_Witness ==
    /\ SearchDone /\ searchRet.err = NoError
    /\ ~req.Pagination.isNil
    /\ req.Pagination.Page = 2 /\ req.Pagination.PageSize = 2
    /\ Len(executeLog) = 1 /\ Succeeded(1) /\ RowsReturned(1) = 2
    /\ executeLog[1].sql.limit = 1000 /\ executeLog[1].sql.offset = 0
    /\ Len(allHits) = 2 /\ searchRet.Hits = <<>>

----------------------------------------------------------------------------
(* Properties of the protocol client *)

\* the last call got a JSON body back from the engine
Answered == lastCall.http.transport = "ok" /\ lastCall.http.parsable

\* C7: when BeginTransaction has returned an id for a label and is called
\* again with that label while that transaction is still open (the engine
\* answers the second call and reports the open transaction's id as
\* ExistingTxnId), the second call returns the same id and no error.
C7_IdempotentBegin ==
    [][(/\ lastCall.op = "BeginTransaction"
        /\ lastCall.ret.err = NoError
        /\ lastCall'.op = "BeginTransaction"
        /\ lastCall'.label = lastCall.label
        /\ lastCall'.http.transport = "ok" /\ lastCall'.http.parsable
        /\ lastCall'.http.ExistingTxnId = lastCall.ret.txnID
        /\ txnState[lastCall.ret.txnID] = "Begun")
       => (lastCall'.ret.err = NoError /\ lastCall'.ret.txnID = lastCall.ret.txnID)]_vars

\* C8: AbortTransaction returns no error whenever the engine's answer
\* parses, whatever its Status; its only errors are NetworkError for a
\* transport failure and DeserializationError for a body that does not parse.
C8_AbortBestEffort ==
    lastCall.op = "AbortTransaction" =>
        /\ Answered => lastCall.ret.err = NoError
        /\ lastCall.http.transport # "ok" => lastCall.ret.err = NetworkError
        /\ (lastCall.http.transport = "ok" /\ ~lastCall.http.parsable) =>
              lastCall.ret.err = DeserializationError

\* C8 witness: an abort of a transaction that was already committed, refused
\* by the engine, returned nil
C8_Witness ==
    /\ lastCall.op = "AbortTransaction"
    /\ lastCall.stateBefore = "Committed"
    /\ Answered /\ lastCall.http.Status # "Success"
    /\ lastCall.ret.err = NoError
    /\ txnState[lastCall.txnID] = "Committed"

\* C9: CommitTransaction returns nil exactly when the engine's answer parses
\* and its Status is Success; every other parsed Status gives DatabaseError.
C9_CommitStrict ==
    lastCall.op = "CommitTransaction" =>
        /\ lastCall.ret.err = NoError <=> (Answered /\ lastCall.http.Status = "Success")
        /\ (Answered /\ lastCall.http.Status # "Success") =>
              lastCall.ret.err = DatabaseError

\* C9 witness: a commit of a transaction that was already aborted, refused by
\* the engine, returned DatabaseError
C9_Witness ==
    /\ lastCall.op = "CommitTransaction"
    /\ lastCall.stateBefore = "Aborted"
    /\ Answered /\ lastCall.http.Status = "Publish Timeout"
    /\ lastCall.ret.err = DatabaseError

\* C10: StreamLoad returns no error exactly when the body parses and its
\* Status is Success or Publish Timeout; for every other parsed Status it
\* returns DatabaseError together with the parsed response, unchanged.
C10_StreamLoadStatus ==
    lastCall.op = "StreamLoad" =>
        /\ lastCall.ret.err = NoError <=>
              (Answered /\ lastCall.http.body.Status \in {"Success", "Publish Timeout"})
        /\ (Answered /\ lastCall.http.body.Status \notin {"Success", "Publish Timeout"}) =>
              /\ lastCall.ret.err = DatabaseError
              /\ ~lastCall.ret.respNil
              /\ lastCall.ret.resp = lastCall.http.body
        /\ lastCall.ret.err = NoError =>
              (~lastCall.ret.respNil /\ lastCall.ret.resp = lastCall.http.body)

\* C10 witness: a load the engine failed, returned with its ErrorURL and
\* counters and a DatabaseError
C10_Witness ==
    /\ lastCall.op = "StreamLoad"
    /\ Answered /\ lastCall.http.body.Status = "Fail"
    /\ lastCall.ret.err = DatabaseError
    /\ ~lastCall.ret.respNil
    /\ lastCall.ret.resp.ErrorURL = "http://fe/err"
    /\ lastCall.ret.resp.NumberFilteredRows = 3

\* the row counters of a load response add up
CountersAddUp(r) ==
    r.NumberLoadedRows + r.NumberFilteredRows + r.NumberUnselectedRows = r.NumberTotalRows

\* StreamLoad returned a response with Status Success and no error
LoadSucceeded ==
    /\ lastCall.op = "StreamLoad"
    /\ lastCall.ret.err = NoError /\ ~lastCall.ret.respNil
    /\ lastCall.ret.resp.Status = "Success"

C12_ExecuteErrors ==
    lastCall.op = "Execute" =>
        LET http == lastCall.http
            ret == lastCall.ret
            good == /\ http.transport = "ok" /\ http.status = HttpStatusOK
                    /\ http.parsable /\ http.code = 0
        IN  /\ ret.res.isNil <=> ret.err # NoError
            /\ ret.err = NoError <=> good
            /\ ret.err \in {NoError, NetworkError, DatabaseError, DeserializationError}
            /\ http.transport # "ok" => ret.err = NetworkError
            /\ (http.transport = "ok" /\ http.status # HttpStatusOK) =>
                  ret.err = DatabaseError
            /\ (http.transport = "ok" /\ http.status = HttpStatusOK /\ ~http.parsable) =>
                  ret.err = DeserializationError
            /\ (http.transport = "ok" /\ http.status = HttpStatusOK /\ http.parsable
                  /\ http.code # 0) => ret.err = DatabaseError

\* C12 witness: an answer with status 500 and a body that is not JSON gave
\* DatabaseError and no result
C12_Witness ==
    /\ lastCall.op = "Execute"
    /\ lastCall.http.transport = "ok" /\ lastCall.http.status = 500
    /\ ~lastCall.http.parsable
    /\ lastCall.ret.err = DatabaseError
    /\ lastCall.ret.res.isNil

\* the methods that talk to the engine
EngineOps == {"Execute", "StreamLoad", "BeginTransaction", "CommitTransaction",
              "AbortTransaction"}

\* C13: every call of Execute, StreamLoad, BeginTransaction,
\* CommitTransaction or AbortTransaction sends at most one request, whether
\* it fails or succeeds (none only when the request could not be built), and
\* a transaction becomes Committed or Aborted only in the step of a
\* caller's CommitTransaction or AbortTransaction call for that very
\* transaction, which sent its one request.
C13_NoRetryNoReconciliation ==
    [][/\ lastCall'.op \in EngineOps =>
             /\ lastCall'.sent <= 1
             /\ lastCall'.sent = 0 <=> lastCall'.http.transport = "newRequestErr"
        /\ \A t \in TxnIds :
             /\ (txnState[t] # "Committed" /\ txnState'[t] = "Committed") =>
                   /\ lastCall'.op = "CommitTransaction"
                   /\ lastCall'.txnID = t /\ lastCall'.sent = 1
             /\ (txnState[t] # "Aborted" /\ txnState'[t] = "Aborted") =>
                   /\ lastCall'.op = "AbortTransaction"
                   /\ lastCall'.txnID = t /\ lastCall'.sent = 1]_vars

\* C13 witness: a commit whose request was lost in transport was sent once,
\* returned NetworkError, and the transaction is still open
C13_Witness ==
    /\ lastCall.op = "CommitTransaction"
    /\ lastCall.http.transport = "doErr"
    /\ lastCall.sent = 1
    /\ lastCall.ret.err = NetworkError
    /\ lastCall.stateBefore = "Begun"
    /\ txnState[lastCall.txnID] = "Begun"

\* the host names of a host list
HostNames(hosts) == {<<hosts[i][1], hosts[i][2]>> : i \in 1..Len(hosts)}

\* the entries of a host list
HostSet(hosts) == {hosts[i] : i \in 1..Len(hosts)}

C16_ColumnsAndRows ==
    (lastCall.op = "Execute" /\ lastCall.ret.err = NoError) =>
        LET res == lastCall.ret.res
            http == lastCall.http
        IN  /\ ~res.isNil
            /\ Len(res.Columns) = Len(http.meta)
            /\ \A i \in 1..Len(http.meta) : res.Columns[i] = http.meta[i].name
            /\ Len(res.Rows) = Len(http.result)
            /\ \A k \in 1..Len(http.result) : res.Rows[k] = http.result[k]

\* C16 witness: an envelope with code 0, the three columns of the events
\* table and two rows gave these three column names and two rows
C16_Witness ==
    /\ lastCall.op = "Execute" /\ lastCall.ret.err = NoError
    /\ lastCall.http.code = 0
    /\ lastCall.ret.res.Columns = <<c_id, c_title, c_user_id>>
    /\ Len(lastCall.ret.res.Rows) = 2
    /\ lastCall.ret.res.Rows[1] # lastCall.ret.res.Rows[2]
    /\ lastCall.ret.res.Rows[2][1] = F64Val(2)

----------------------------------------------------------------------------
(* Properties of the query service *)

\* what SearchFullText returns once it has returned
SearchFullTextRet ==
    IF lastCall.earlyErr # NoError THEN SearchError(lastCall.earlyErr) ELSE searchRet

\* C17: ExecuteSQL with an empty SQL string returns InvalidArgument and no
\* result, without calling Execute and so without a request to the engine;
\* SearchFullText with empty keywords returns InvalidArgument and no result,
\* without calling Search, whose state is as it was before any call.
C17_EmptyInputRejected ==
    /\ (lastCall.op = "ExecuteSQL" /\ lastCall.request.SQL = EmptySQL) =>
          /\ ~lastCall.executeCalled /\ lastCall.sent = 0
          /\ lastCall.ret.isNil /\ lastCall.ret.err = InvalidArgument
    /\ (lastCall.op = "SearchFullText" /\ Len(lastCall.request.Keywords) = 0) =>
          /\ ~lastCall.searchCalled
          /\ SearchFullTextRet.returned /\ SearchFullTextRet.isNil
          /\ SearchFullTextRet.err = InvalidArgument
          /\ searchPC = "idle" /\ req = NoRequest /\ executeLog = <<>>

\* the conditions a query ANDs onto its match clauses
AndFiltersOf(sql) == {sql.andFilters[k] : k \in 1..Len(sql.andFilters)}

\* the query carries every filter of the request
CarriesFilters(sql, r) ==
    /\ ~r.TimeRangeFilter.isNil =>
          [kind |-> "between", key |-> "timestamp",
           lo |-> r.TimeRangeFilter.StartTime, hi |-> r.TimeRangeFilter.EndTime]
             \in AndFiltersOf(sql)
    /\ \A kv \in r.AdditionalFilters :
          \E f \in AndFiltersOf(sql) :
              f.kind = "equals" /\ f.key = kv[1] /\ f.value = kv[2]

\* C18: in every query Search has built the field predicates are joined by
\* OR and the time range and the additional filters of the request, when
\* it has any, are ANDed onto them; so every collected hit comes from a
\* query that carried the request's filters.
C18_FiltersAnded ==
    /\ \A i \in 1..Len(executeLog) :
          /\ executeLog[i].sql.joinedBy = "OR"
          /\ CarriesFilters(executeLog[i].sql, req)
    /\ \A k \in 1..Len(allHits) :
          \E i \in 1..Len(executeLog) :
              /\ executeLog[i].sql.from = allHits[k].SourceTable
              /\ CarriesFilters(executeLog[i].sql, req)

\* C17 witness: a search request with tables and fields but empty keywords
\* was turned down before Search was entered
C17_Witness ==
    /\ lastCall.op = "SearchFullText"
    /\ Len(lastCall.request.Keywords) = 0
    /\ Len(lastCall.request.TargetTables) = 2 /\ Len(lastCall.request.TargetFields) = 2
    /\ lastCall.earlyErr = InvalidArgument
    /\ searchPC = "idle" /\ executeLog = <<>>

----------------------------------------------------------------------------
(* Properties of concurrent StreamLoad calls (LoaderSpec) *)

\* how often index h was read among selections a+1 .. a+n
TimesTaken(h, a, n) == Cardinality({i \in (a + 1)..(a + n) : taken[i] = h})

\* C21: under any interleaving of StreamLoad calls the load index stays in
\* 0..N-1, the values read one after another are consecutive modulo N,
\* and any N*k selections in a row use every host exactly k times
C21_RoundRobinUnderConcurrency ==
    LET N == Len(feHosts) IN
    /\ loadURLIdx \in 0..(N - 1)
    /\ \A i \in 1..(Len(taken) - 1) : taken[i + 1] = (taken[i] + 1) % N
    /\ \A k \in 1..Len(taken) : \A a \in 0..Len(taken) :
          a + N * k <= Len(taken)
              => \A h \in 0..(N - 1) : TimesTaken(h, a, N * k) = k
    /\ \A g \in Loaders :
          loaderRet[g] # NoCall => loaderRet[g].host \in HostSet(feHosts)

\* two full cycles were selected while two calls overlapped: one goroutine
\* holds the lock while another, past its own selection, has yet to send
C21_Witness ==
    /\ Len(taken) = 2 * Len(feHosts)
    /\ \E g1, g2 \in Loaders :
          /\ loaderPC[g1] = "unlocked"
          /\ loaderPC[g2] = "read"
          /\ loaderRet[g1] # NoCall

----------------------------------------------------------------------------------------------------------------------------------------
(* The load counter across all methods (ClientSpec) *)

\* C22: only StreamLoad changes the load index: a call of any other method
\* leaves it as it was, and a StreamLoad call uses the host at the index
\* and advances the index by one modulo the number of hosts, so the host
\* of a call is fixed by the initial index and the count of earlier
\* StreamLoad calls
C22_OnlyStreamLoadMovesIndex ==
    [][LET N == Len(feHosts) IN
       /\ lastCall'.op # "StreamLoad" => loadURLIdx' = loadURLIdx
       /\ lastCall'.op = "StreamLoad"
             => /\ lastCall'.host = feHosts[loadURLIdx + 1]
                /\ loadURLIdx' = (loadURLIdx + 1) % N]_vars

\* a StreamLoad call made after a transaction was committed and another
\* aborted, with the index back at the first host
C22_Witness ==
    /\ lastCall.op = "StreamLoad"
    /\ loadURLIdx = 0
    /\ \E t \in TxnIds : txnState[t] = "Committed"
    /\ \E t \in TxnIds : txnState[t] = "Aborted"

----------------------------------------------------------------------------
(* The headers of a load requested as two-phase commit (LoadSpec) *)

\* C23: a StreamLoad call with the two-phase-commit option set sends a
\* request that carries the two_phase_commit flag and the caller's
\* transaction id as txn_id
C23_TwoPhaseCommitHeaders ==
    (lastCall.op = "StreamLoad" /\ lastCall.opts.TwoPhaseCommit)
        => /\ lastCall.headers.two_phase_commit = "true"
           /\ lastCall.headers.txn_id = lastCall.opts.TransactionID

----------------------------------------------------------------------------
(* The id of a hit (Spec) *)

\* per collected hit, in order, the columns and the row it was built from
HitRows ==
    Concat([i \in 1..Len(executeLog) |->
        IF Succeeded(i)
        THEN [k \in 1..Len(executeLog[i].res.Rows) |->
                [columns |-> executeLog[i].res.Columns,
                 srRow |-> executeLog[i].res.Rows[k]]]
        ELSE <<>>])

\* the positions of a row under an id-like column name
IDPositions(columns, srRow) ==
    {j \in Visited(columns, srRow) : IsIDColumn(columns[j])}

FirstIn(S) == CHOOSE j \in S : \A k \in S : j <= k

\* C24: the ID of a hit is the value of the first id-like column of its
\* row, in column order (stated for a value that is a string or an int64,
\* the two kinds the code turns into an id)
C24_FirstIDColumnWins ==
    /\ Len(allHits) = Len(HitRows)
    /\ \A n \in 1..Len(allHits) :
          LET columns == HitRows[n].columns
              srRow == HitRows[n].srRow
              ids == IDPositions(columns, srRow)
          IN  ids # {} =>
                LET v == srRow[FirstIn(ids)]
                IN  /\ v.kind = "string" => allHits[n].ID = v.str
                    /\ v.kind = "int64" => allHits[n].ID = FormatInt(v.num)

----------------------------------------------------------------------------
(* The order of the per-table queries in time (Spec) *)

\* the queries of the Search call that were sent and have not returned
InFlight == {i \in 1..Len(executeLog) : executeLog[i].pending}

\* C25: the per-table queries of one Search run one after another in
\* table-list order: at most one is in flight, it is the one sent last and
\* the loop is waiting for it, and every query sent before it has returned
C25_QueriesSequential ==
    /\ Cardinality(InFlight) <= 1
    /\ \A i \in InFlight :
          /\ i = Len(executeLog)
          /\ searchPC = "exec"
          /\ tableIdx = i
    /\ \A i \in 1..Len(executeLog) :
          executeLog[i].sql.from = req.TargetTables[i]

\* the query for the second table is in flight after the first table's
\* query failed
C25_Witness ==
    /\ Len(executeLog) = 2
    /\ Failed(1)
    /\ InFlight = {2}
    /\ req.TargetTables[1] # req.TargetTables[2]

----------------------------------------------------------------------------
(* The life cycle of an analysis task (TaskSpec) *)

TerminalStatuses == {TaskStatusSuccess, TaskStatusFailed, TaskStatusCancelled}

\* C26: a task whose status is SUCCESS, FAILED or CANCELLED is never
\* changed again, whichever of CancelTask and simulateTaskExecution takes
\* the next step, and a CancelTask call on such a task returns
\* InvalidArgument
C26_TerminalStatusIsFinal ==
    [][\A id \in TaskIDs :
         tasks[id].Status \in TerminalStatuses
            => /\ tasks'[id] = tasks[id]
               /\ (taskCall' # taskCall /\ taskCall'.op = "CancelTask"
                      /\ taskCall'.taskID = id)
                     => taskCall'.err = InvalidArgument]_vars

----------------------------------------------------------------------------
(* Shutdown (AppSpec) *)

\* C27: a Shutdown call runs every registered function once, the function
\* registered last first and so on back to the first, also after a function
\* has returned an error, and returns nil
C27_ShutdownReverseOrder ==
    appCall.op = "Shutdown" =>
        LET n == Len(appCall.funcs) IN
        /\ appCall.funcs = shutdownFuncs
        /\ Len(appCall.ran) = n
        /\ \A k \in 1..n :
              /\ appCall.ran[k].f = appCall.funcs[n - k + 1]
              /\ appCall.ran[k].failed = appCall.fails[n - k + 1]
        /\ appCall.err = NoError

\* three functions were registered, the one run first failed, and the
\* other two were still run
C27_Witness ==
    /\ appCall.op = "Shutdown"
    /\ Len(appCall.funcs) = 3
    /\ appCall.funcs[1] # appCall.funcs[3]
    /\ appCall.ran[1].failed
    /\ appCall.ran[1].f = appCall.funcs[3]
    /\ ~appCall.ran[3].failed

----------------------------------------------------------------------------
(* The counts of IngestEvents (IngestSpec) *)

\* the events of the last call that pass Validate
ValidIn(events) == {k \in 1..Len(events) : ValidateEvent(events[k]) = NoError}

\* C28: the three counts IngestEvents returns add up to len(events); the
\* error is nil exactly when both failure counts are 0; and a batch with an
\* invalid event returns InvalidArgument while its valid events are
\* counted as ingested
C28_IngestCountsAddUp ==
    ingestCall.op = "IngestEvents" =>
        LET r == ingestCall.ret
            n == Len(ingestCall.events)
            valid == Cardinality(ValidIn(ingestCall.events))
        IN  /\ r.ingestedCount + r.persistFailedCount + r.validationFailedCount = n
            /\ (r.err = NoError)
                  <=> (r.persistFailedCount = 0 /\ r.validationFailedCount = 0)
            /\ valid < n => /\ r.err = InvalidArgument
                            /\ r.ingestedCount = valid
                            /\ r.validationFailedCount = n - valid

\* a batch of three with an invalid event between two valid ones: two
\* counted as ingested, one as failed, InvalidArgument returned
C28_Witness ==
    /\ ingestCall.op = "IngestEvents"
    /\ Len(ingestCall.events) = 3
    /\ ValidIn(ingestCall.events) = {1, 3}
    /\ ingestCall.ret.ingestedCount = 2
    /\ ingestCall.ret.err = InvalidArgument

----------------------------------------------------------------------------
(* GetCode and Is (ErrorsSpec) *)

IsAppError(err) == Len(err) > 0 /\ err[1].kind = "AppError"

\* C29: GetCode returns the code of an AppError and returns UnknownError,
\* without failing, for a non-nil error that is not an AppError; Is returns
\* false for such an error
C29_GetCodeOfOtherErrors ==
    LET other == Len(errCall.err) > 0 /\ ~IsAppError(errCall.err) IN
    /\ (errCall.op = "GetCode" /\ IsAppError(errCall.err))
          => (~errCall.ret.panics /\ errCall.ret.code = errCall.err[1].Code)
    /\ (errCall.op = "GetCode" /\ other)
          => (~errCall.ret.panics /\ errCall.ret.code = UnknownError)
    /\ (errCall.op = "Is" /\ other)
          => (~errCall.ret.panics /\ ~errCall.ret.is)

----------------------------------------------------------------------------
(* The pagination window for any request (PageSpec) *)

\* C30: for any pagination request Search returns, without indexing the
\* hits out of bounds, the window that starts at (page-1)*pageSize and is
\* pageSize long, a page <= 0 counted as 1 and a page size <= 0 as 10;
\* without pagination it returns every collected hit
C30_WindowForAnyPagination ==
    (SearchDone /\ lastCall.op = "SearchFullText" /\ lastCall.searchCalled) =>
        LET pr == lastCall.request.Pagination
            page == IF pr.Page <= 0 THEN 1 ELSE pr.Page
            pageSize == IF pr.PageSize <= 0 THEN 10 ELSE pr.PageSize
            start == (page - 1) * pageSize
            n == Len(allHits)
        IN  /\ searchRet.returned /\ searchRet.err = NoError
            /\ pr.isNil => searchRet.Hits = allHits
            /\ ~pr.isNil =>
                  /\ start >= 0 /\ pageSize >= 1
                  /\ searchRet.Hits =
                        [k \in 1..(IF start >= n THEN 0
                                   ELSE Min(start + pageSize, n) - start)
                            |-> allHits[start + k]]

====
